---------------------------- MODULE Spec2Model ----------------------------
(***************************************************************************)
(* Mini METARs front end: the App orchestrator (station list, global UI    *)
(* flags, profile load, apply-and-resize transactions) and one Metar       *)
(* station monitor (lookup, METAR and ATIS polling, panel toggles,         *)
(* teardown).                                                              *)
(*                                                                         *)
(* The program runs on one cooperative event loop.  Every `await` of an    *)
(* external call (a Tauri command, a window call, a log call) is a         *)
(* suspension point: the code up to it is one atomic action, and the       *)
(* completion of the call is the next action of that task.                 *)
(*                                                                         *)
(* Log calls (debug / trace / warn / logIfDev) always resolve and touch no *)
(* state of the program.  Where the code reads and writes nothing between  *)
(* a log call and the suspension next to it, the two are one suspension    *)
(* point of the model; each action says which awaits it spans.  The        *)
(* trace(...) between the timestamp comparison of updateMetar and its      *)
(* setters is kept as a suspension point of its own.                       *)
(*                                                                         *)
(* Station identifiers are sequences of one-character strings, so that     *)
(* their length and their white space are what the code sees.              *)
(***************************************************************************)
EXTENDS Integers, Sequences, FiniteSets, Bags, TLC

(***************************************************************************)
(* Bounds of the model.                                                    *)
(***************************************************************************)
MaxStations == 2
MaxTx == 2
MaxTs == 2
MaxMetarTasks == 2
MaxAtisTasks == 1
MaxSaves == 2
MaxOpens == 1
\* Math.random() returns a multiple of 1 / 2^RandomBits, or one of the
\* MaxUlps doubles next below 1.
RandomBits == 5
MaxUlps == 3

(***************************************************************************)
(* Input alphabets.                                                        *)
(***************************************************************************)
\* What the user can type into the station input.
InputIds ==
  { <<>>,
    <<"A", "B">>,
    <<"A", "B", " ">>,
    <<"A", "B", "C", "D">>,
    <<" ", "A", "B", "C", "D">> }

\* Station lists a stored profile can carry.
ProfileStations ==
  { <<>>,
    << <<"A", "B", "C", "D">>, <<"A", "B", "C">>, <<"X", "Y", "Z">> >> }

Units == {"inHg", "hPa"}

\* The optional `window` field of a Profile: absent (undefined), null, or a
\* saved geometry.
WindowFields == {"absent", "null", "geometry"}

\* The flags a stored profile can carry: everything shown, in inHg; or
\* input and titlebar hidden, stations without ATIS hidden, in hPa.
ProfileFlags ==
  { [showInput |-> TRUE, showTitlebar |-> TRUE, units |-> "inHg",
     hideAirportIfMissingAtis |-> FALSE],
    [showInput |-> FALSE, showTitlebar |-> FALSE, units |-> "hPa",
     hideAirportIfMissingAtis |-> TRUE] }

\* The profiles load_profile and load_settings_initial can answer with.
Profiles ==
  { [stations |-> st, showInput |-> f.showInput,
     showTitlebar |-> f.showTitlebar, units |-> f.units,
     hideAirportIfMissingAtis |-> f.hideAirportIfMissingAtis, window |-> w] :
      st \in ProfileStations, f \in ProfileFlags, w \in WindowFields }

SettingsValues ==
  [ loadMostRecentProfileOnOpen : BOOLEAN,
    alwaysOnTop : {TRUE},
    autoResize : {TRUE} ]

\* loadSettingsInitial's answer: the settings and an optional profile
\* (a sequence of length 0 or 1).
InitialLoads ==
  [ settings : SettingsValues,
    profile : {<<>>} \cup { <<p>> : p \in Profiles } ]

OsTypes == {"windows", "macos"}

\* What a measurement reads: currentSize.width of window.innerSize() in
\* physical pixels, window.scaleFactor() in quarters (5 is 1.25) and
\* containerRef.offsetHeight in logical pixels.
Windows ==
  [ width : {300}, scaleQuarters : {4, 5, 6}, offsetHeight : {28, 57} ]

FirstWindow == [width |-> 300, scaleQuarters |-> 4, offsetHeight |-> 28]

VARIABLES
  \* ---- App ----
  osType,        \* type() of the platform
  win,           \* what the window and the container report when measured
  ids,           \* store: the station list
  inputId,       \* signal: the text of the station input
  mainUi,        \* store: showScroll, showInput, showTitlebar, units, and
                 \* hideAirportIfMissingAtis as the Metar component reads it
  settings,      \* store: Settings
  txs,           \* bag of resetWindowHeight calls in flight
  appMountPc,    \* position of App's onMount
  opens,         \* bag of open-profile shortcut handlers in flight, each
                 \* its position
  rowIndex,      \* i() of the station row followed below, -1 when <For>
                 \* holds no such row
  saves,         \* bag of save and save-as shortcut handlers in flight
  \* ---- Metar (one station monitor) ----
  requestedId,
  stPc,          \* position of Metar's onMount
  disposed,      \* onCleanup has run
  icaoId, validId, displayId,
  currentTimestamp, altimeter, wind, rawMetar,
  showFullMetar, atisLetter, atisTexts, showAtisTexts,
  metarTimerHandle, letterTimerHandle,
  intervals,     \* the interval timers armed in the runtime
  metarDelay,    \* delay of the METAR interval in ms, 0 while not set
  letterDelay,   \* delay of the ATIS interval in ms, 0 while not set
  randoms,       \* the values Math.random() returns, in turn
  draws,         \* number of Math.random() calls so far
  metarTasks,    \* bag of updateMetar calls in flight
  atisTasks      \* bag of updateAtis mutations in flight

appVars ==
  << osType, win, rowIndex, ids, inputId, mainUi, settings, txs, appMountPc,
     opens, saves >>

stVars ==
  << requestedId, stPc, disposed, icaoId, validId, displayId,
     currentTimestamp, altimeter, wind, rawMetar, showFullMetar,
     atisLetter, atisTexts, showAtisTexts, metarTimerHandle,
     letterTimerHandle, intervals, metarDelay, letterDelay, randoms, draws,
     metarTasks, atisTasks >>

vars == << appVars, stVars >>

\* What <For> and onCleanup write when the list changes.
stRow == << rowIndex, requestedId, stPc, disposed, intervals >>

\* The rest of the station row.
stKept ==
  << icaoId, validId, displayId, currentTimestamp, altimeter, wind, rawMetar,
     showFullMetar, atisLetter, atisTexts, showAtisTexts, metarTimerHandle,
     letterTimerHandle, metarDelay, letterDelay, randoms, draws, metarTasks,
     atisTasks >>

(***************************************************************************)
(* Helpers.                                                                *)
(***************************************************************************)
BagAdd(b, e) == b (+) SetToBag({e})
BagRemove(b, e) == b (-) SetToBag({e})

\* Array.prototype.slice(from, to) on a 0-based array held as a 1-based
\* sequence: the elements with 0-based index in [from, to).
Slice(array, from, to) ==
  LET lo == IF from < 0 THEN 0 ELSE from
      hi == IF to > Len(array) THEN Len(array) ELSE to
  IN  IF hi <= lo THEN <<>> ELSE SubSeq(array, lo + 1, hi)

RemoveIndexDropsNext(array, index) ==
  Slice(array, 0, index) \o Slice(array, index + 2, Len(array))

\* removeIndex(array, index), index 0-based.
RemoveIndex(array, index) ==
  Slice(array, 0, index) \o Slice(array, index + 1, Len(array))

SetAtFront(array, value) == <<value>> \o array

\* setIds(ids.length, value): a store write at index ids.length.
SetAtLength(array, value) ==
  [ i \in 1..(Len(array) + 1) |-> IF i = Len(array) + 1 THEN value ELSE array[i] ]

(***************************************************************************)
(* ResizeCoordinator: resetWindowHeight and applyFnAndResize.              *)
(***************************************************************************)
\* A call of resetWindowHeight in flight: where it is suspended ("measure":
\* awaiting window.innerSize() and then window.scaleFactor(); "setSize":
\* awaiting window.setSize(...)), and whose continuation waits for the
\* enclosing applyFnAndResize.
TxPcs == {"measure", "setSize"}
TxOwners == {"none", "open", "mount"}

NumTx == BagCardinality(txs)

\* setMainUi("showScroll", false)
Suppressed == [mainUi EXCEPT !.showScroll = FALSE]

\* applyFnAndResize(fn), up to its first suspension: scrolling is suppressed,
\* fn has run (uiAfterFn is the store it leaves), and resetWindowHeight is
\* awaiting window.innerSize().
ApplyFnAndResize(uiAfterFn, owner) ==
  /\ NumTx < MaxTx
  /\ mainUi' = uiAfterFn
  /\ txs' = BagAdd(txs, [pc |-> "measure", owner |-> owner, request |-> <<>>])

TitlebarOffsetIfCustom(showTitlebar, os) ==
  IF showTitlebar /\ os = "windows" THEN 24 ELSE 0

\* mainUi.showTitlebar ? (type() === "macos" ? 30 : 24) : 0
TitlebarOffset(showTitlebar, os) ==
  IF showTitlebar THEN (IF os = "macos" THEN 30 ELSE 24) ELSE 0

\* new PhysicalSize(currentSize.width,
\*                  (containerRef.offsetHeight + offset) * scaleFactor),
\* the height in quarters of a pixel.
SizeRequested(w, showTitlebar, os) ==
  [ width |-> w.width,
    heightQuarters |->
      (w.offsetHeight + TitlebarOffset(showTitlebar, os)) * w.scaleQuarters ]

\* window.innerSize() and window.scaleFactor() have resolved; the offset is
\* read and window.setSize(...) is called: the resize request is issued.
Measured(t) ==
  /\ BagIn(t, txs)
  /\ t.pc = "measure"
  /\ txs' = BagAdd(BagRemove(txs, t),
                   [t EXCEPT !.pc = "setSize",
                             !.request = << SizeRequested(win, mainUi.showTitlebar, osType) >>])
  /\ UNCHANGED << osType, win, rowIndex, saves, ids, inputId, mainUi, settings, appMountPc, opens, stVars >>

\* window.setSize() resolves; resetWindowHeight returns, applyFnAndResize
\* restores scrolling and the awaiting caller, if any, goes on.
SetSizeDone(t) ==
  /\ BagIn(t, txs)
  /\ t.pc = "setSize"
  /\ txs' = BagRemove(txs, t)
  /\ mainUi' = [mainUi EXCEPT !.showScroll = TRUE]
  /\ opens' = IF t.owner = "open"
                THEN BagAdd(BagRemove(opens, "resize"), "saveSettings")
                ELSE opens
  /\ appMountPc' = IF t.owner = "mount" THEN "done" ELSE appMountPc
  /\ UNCHANGED << osType, win, rowIndex, saves, ids, inputId, settings, stVars >>

\* window.innerSize(), window.scaleFactor() or window.setSize() rejects:
\* resetWindowHeight and applyFnAndResize reject, scrolling is not restored.
\* Of the callers, the open shortcut catches and logs, onMount ends, and an
\* event handler leaves the rejection unhandled.
ResizeFailed(t) ==
  /\ BagIn(t, txs)
  /\ txs' = BagRemove(txs, t)
  /\ opens' = IF t.owner = "open" THEN BagRemove(opens, "resize") ELSE opens
  /\ appMountPc' = IF t.owner = "mount" THEN "done" ELSE appMountPc
  /\ UNCHANGED << osType, win, rowIndex, saves, ids, inputId, mainUi, settings, stVars >>

(***************************************************************************)
(* App: the rows <For each={ids}> keeps, and the one row followed.         *)
(***************************************************************************)
\* The length of the common prefix of two arrays.
CommonPrefix(items, newItems) ==
  LET most == IF Len(items) < Len(newItems) THEN Len(items) ELSE Len(newItems)
  IN CHOOSE n \in 0..most :
       /\ \A i \in 1..n : items[i] = newItems[i]
       /\ n = most \/ items[n + 1] # newItems[n + 1]

\* The length of the common suffix of two arrays after their first `start`
\* elements.
CommonSuffix(items, newItems, start) ==
  LET most == (IF Len(items) < Len(newItems) THEN Len(items) ELSE Len(newItems))
                - start
  IN CHOOSE n \in 0..most :
       /\ \A i \in 0..(n - 1) : items[Len(items) - i] = newItems[Len(newItems) - i]
       /\ n = most \/ items[Len(items) - n] # newItems[Len(newItems) - n]

\* mapArray, by which <For> keeps its rows when the list goes from `items`
\* to `newItems`: the new 0-based index of the row at index `at`, or -1 when
\* the row is disposed.  Rows of the common prefix stay, rows of the common
\* suffix shift with it, and each row between them goes to the next
\* occurrence of its item between them in newItems that no earlier row has
\* taken, and is disposed when there is none.
MapArray(items, newItems, at) ==
  LET start == CommonPrefix(items, newItems)
      suffix == CommonSuffix(items, newItems, start)
      pos == at + 1
      before == Cardinality({i \in (start + 1)..(pos - 1) : items[i] = items[pos]})
      found == {j \in (start + 1)..(Len(newItems) - suffix) : newItems[j] = items[pos]}
  IN IF pos <= start THEN at
     ELSE IF pos > Len(items) - suffix THEN at - Len(items) + Len(newItems)
     ELSE IF Cardinality(found) > before
       THEN (CHOOSE j \in found : Cardinality({k \in found : k < j}) = before) - 1
       ELSE -1

\* onCleanup: the timers whose handle is not undefined are cleared.
ClearedOnCleanup(metarHandle, letterHandle) ==
  {metarHandle, letterHandle} \ {"undefined"}

\* onCleanup of the row followed.
Cleanup ==
  /\ disposed' = TRUE
  /\ intervals' = intervals \ ClearedOnCleanup(metarTimerHandle, letterTimerHandle)

\* What a write of the list brings about in the rows of <For each={ids}>,
\* in the step of the write.  One row is followed through its life: the
\* first row rendered.  While no row has been rendered, the row of the first
\* item of a new list is the one: its Metar is created with that item as
\* props.requestedId and its onMount awaits debug(...) and then
\* lookupStationCmd(props.requestedId).  Once it is rendered, mapArray moves
\* it or disposes it, and its disposal runs its onCleanup.
ForEachIds(newItems) ==
  IF stPc = "unmounted"
    THEN IF newItems = <<>>
           THEN UNCHANGED stRow
           ELSE /\ rowIndex' = 0
                /\ requestedId' = newItems[1]
                /\ stPc' = "lookup"
                /\ UNCHANGED << disposed, intervals >>
    ELSE IF disposed
           THEN UNCHANGED stRow
           ELSE /\ rowIndex' = MapArray(ids, newItems, rowIndex)
                /\ IF MapArray(ids, newItems, rowIndex) = -1
                     THEN Cleanup
                     ELSE UNCHANGED << disposed, intervals >>
                /\ UNCHANGED << requestedId, stPc >>

(***************************************************************************)
(* App: station list operations.                                           *)
(***************************************************************************)
\* onInput of the station input (shown while showInput).
SetInputId(v) ==
  /\ mainUi.showInput
  /\ inputId' = v
  /\ UNCHANGED << osType, win, rowIndex, saves, ids, mainUi, settings, txs, appMountPc, opens, stVars >>

AcceptsUpToFour(id) == Len(id) <= 4

\* The guard of addStation: inputId().length >= 3 && inputId().length <= 4.
AcceptsId(id) == Len(id) >= 3 /\ Len(id) <= 4

\* addStation(e): onSubmit of the input form.
AddStation ==
  /\ mainUi.showInput
  /\ Len(ids) < MaxStations
  /\ ApplyFnAndResize(Suppressed, "none")
  /\ IF AcceptsId(inputId)
       THEN /\ ids' = SetAtLength(ids, inputId)
            /\ inputId' = <<>>
            /\ ForEachIds(SetAtLength(ids, inputId))
       ELSE UNCHANGED << ids, inputId, stRow >>
  /\ UNCHANGED << osType, win, saves, settings, appMountPc, opens, stKept >>

\* removeStation(index): onClick of a row's delete button (shown while
\* showInput); index is 0-based.
RemoveStation(index) ==
  /\ mainUi.showInput
  /\ index \in 0..(Len(ids) - 1)
  /\ ApplyFnAndResize(Suppressed, "none")
  /\ ids' = RemoveIndex(ids, index)
  /\ ForEachIds(RemoveIndex(ids, index))
  /\ UNCHANGED << osType, win, saves, inputId, settings, appMountPc, opens,
                  stKept >>

(***************************************************************************)
(* App: shortcuts that toggle the global flags.                            *)
(***************************************************************************)
\* Ctrl/Cmd + D
ToggleInput ==
  /\ ApplyFnAndResize(
       IF Len(ids) > 0
         THEN [Suppressed EXCEPT !.showInput = ~mainUi.showInput]
         ELSE Suppressed,
       "none")
  /\ UNCHANGED << osType, win, rowIndex, saves, ids, inputId, settings, appMountPc,
                  opens, stVars >>

\* type() === "windows"
UseCustomTitlebar == osType = "windows"

\* Ctrl/Cmd + B
ToggleTitlebar ==
  /\ ApplyFnAndResize(
       IF UseCustomTitlebar
         THEN [Suppressed EXCEPT !.showTitlebar = ~mainUi.showTitlebar]
         ELSE Suppressed,
       "none")
  /\ UNCHANGED << osType, win, rowIndex, saves, ids, inputId, settings, appMountPc,
                  opens, stVars >>

\* Ctrl/Cmd + U
ToggleUnits ==
  /\ mainUi' = [mainUi EXCEPT !.units = IF mainUi.units = "inHg" THEN "hPa" ELSE "inHg"]
  /\ UNCHANGED << osType, win, rowIndex, saves, ids, inputId, settings, txs, appMountPc, opens, stVars >>

\* Ctrl/Cmd + H, a shortcut of the App the Metar component is written for
\* (the App that owns hideAirportIfMissingAtis): it changes the flag only
\* in the condensed view, where the input is hidden, and resizes.
ToggleHide ==
  /\ ApplyFnAndResize(
       IF ~mainUi.showInput
         THEN [Suppressed EXCEPT !.hideAirportIfMissingAtis =
                                   ~mainUi.hideAirportIfMissingAtis]
         ELSE Suppressed,
       "none")
  /\ UNCHANGED << osType, win, rowIndex, saves, ids, inputId, settings, appMountPc,
                  opens, stVars >>

(***************************************************************************)
(* App: profile save and load.                                             *)
(***************************************************************************)
\* currentProfileState(): the Profile value handed to saveProfileCmd and
\* saveProfileAsCmd.
CurrentProfileState ==
  [ name |-> "",
    stations |-> ids,
    showTitlebar |-> mainUi.showTitlebar,
    showInput |-> mainUi.showInput,
    units |-> mainUi.units ]

\* The batch of loadProfile applied to a store value.
ProfileAppliedKeepsUnits(ui, p) ==
  [ui EXCEPT !.showInput = p.showInput,
             !.showTitlebar = p.showTitlebar]

\* The batch of loadProfile on the flags of the store.
ProfileApplied(ui, p) ==
  [ui EXCEPT !.showInput = p.showInput,
             !.showTitlebar = p.showTitlebar,
             !.units = p.units]

\* The test of loadProfile: p.window === null.
ResizesOnLoad(p) == p.window = "null"

\* loadProfile(p), up to its first suspension.  `owner` is the caller that
\* awaits it; `after` is where that caller goes on when loadProfile returns
\* without suspending.
LoadProfile(p, owner, after) ==
  /\ ids' = p.stations
  /\ ForEachIds(p.stations)
  /\ IF ResizesOnLoad(p)
       THEN /\ ApplyFnAndResize(ProfileApplied(Suppressed, p), owner)
            /\ opens' = IF owner = "open"
                          THEN BagAdd(BagRemove(opens, "loadProfileCmd"), "resize")
                          ELSE opens
            /\ appMountPc' = IF owner = "mount" THEN "resize" ELSE appMountPc
       ELSE /\ mainUi' = ProfileApplied(mainUi, p)
            /\ txs' = txs
            /\ opens' = IF owner = "open"
                          THEN BagAdd(BagRemove(opens, "loadProfileCmd"), after)
                          ELSE opens
            /\ appMountPc' = IF owner = "mount" THEN after ELSE appMountPc

NumOpens == BagCardinality(opens)

\* Ctrl/Cmd + O: a handler starts and awaits loadProfileCmd().
OpenProfile ==
  /\ NumOpens < MaxOpens
  /\ opens' = BagAdd(opens, "loadProfileCmd")
  /\ UNCHANGED << osType, win, rowIndex, saves, ids, inputId, mainUi, settings, txs, appMountPc, stVars >>

\* loadProfileCmd() resolves with p; loadProfile(p) runs.
OpenProfileLoaded(p) ==
  /\ BagIn("loadProfileCmd", opens)
  /\ LoadProfile(p, "open", "saveSettings")
  /\ UNCHANGED << osType, win, saves, inputId, settings, stKept >>

OpenProfileFailedClearsList ==
  /\ BagIn("loadProfileCmd", opens)
  /\ opens' = BagRemove(opens, "loadProfileCmd")
  /\ ids' = <<>>
  /\ ForEachIds(<<>>)
  /\ UNCHANGED << osType, win, saves, inputId, mainUi, settings, txs, appMountPc, stKept >>

\* loadProfileCmd() rejects (the dialog was dismissed, or the read failed):
\* the handler logs the error and ends.
OpenProfileFailed ==
  /\ BagIn("loadProfileCmd", opens)
  /\ opens' = BagRemove(opens, "loadProfileCmd")
  /\ UNCHANGED << osType, win, rowIndex, saves, ids, inputId, mainUi, settings, txs, appMountPc, stVars >>

\* saveSettingsCmd(settings) after the load resolves: the handler ends.
OpenSaveSettingsDone ==
  /\ BagIn("saveSettings", opens)
  /\ opens' = BagRemove(opens, "saveSettings")
  /\ UNCHANGED << osType, win, rowIndex, saves, ids, inputId, mainUi, settings, txs, appMountPc, stVars >>

\* saveSettingsCmd(settings) after the load rejects: the handler logs the
\* error and ends.
OpenSaveSettingsFailed ==
  /\ BagIn("saveSettings", opens)
  /\ opens' = BagRemove(opens, "saveSettings")
  /\ UNCHANGED << osType, win, rowIndex, saves, ids, inputId, mainUi, settings, txs, appMountPc, stVars >>

(***************************************************************************)
(* App: the save and save-as shortcuts.                                    *)
(***************************************************************************)
NumSaves == BagCardinality(saves)

\* The handlers of `b` that await saveSettingsCmd.
SaveSettingsCalls(b) ==
  LET at == {h \in BagToSet(b) : h.pc = "saveSettings"}
  IN IF at = {} THEN 0 ELSE BagCardinality([h \in at |-> b[h]])

\* Ctrl/Cmd + S: the handler starts and awaits
\* saveProfileCmd(currentProfileState()).
SaveProfile ==
  /\ NumSaves < MaxSaves
  /\ saves' = BagAdd(saves, [pc |-> "saveProfileCmd", arg |-> CurrentProfileState])
  /\ UNCHANGED << osType, win, rowIndex, ids, inputId, mainUi, settings, txs, appMountPc,
                  opens, stVars >>

\* Ctrl/Cmd + Shift + S: the handler starts and awaits
\* saveProfileAsCmd(currentProfileState()).
SaveProfileAs ==
  /\ NumSaves < MaxSaves
  /\ saves' = BagAdd(saves, [pc |-> "saveProfileAsCmd", arg |-> CurrentProfileState])
  /\ UNCHANGED << osType, win, rowIndex, ids, inputId, mainUi, settings, txs, appMountPc,
                  opens, stVars >>

ProfileSavedEndsHandler(h) ==
  /\ BagIn(h, saves)
  /\ h.pc \in {"saveProfileCmd", "saveProfileAsCmd"}
  /\ saves' = BagRemove(saves, h)
  /\ UNCHANGED << osType, win, rowIndex, ids, inputId, mainUi, settings, txs, appMountPc,
                  opens, stVars >>

\* saveProfileCmd or saveProfileAsCmd resolves: the handler awaits
\* saveSettingsCmd(settings).
ProfileSaved(h) ==
  /\ BagIn(h, saves)
  /\ h.pc \in {"saveProfileCmd", "saveProfileAsCmd"}
  /\ saves' = BagAdd(BagRemove(saves, h), [pc |-> "saveSettings", arg |-> settings])
  /\ UNCHANGED << osType, win, rowIndex, ids, inputId, mainUi, settings, txs, appMountPc,
                  opens, stVars >>

\* saveProfileCmd or saveProfileAsCmd rejects (the write failed, or the
\* save-as dialog was dismissed): the handler logs the error and ends.
ProfileSaveFailed(h) ==
  /\ BagIn(h, saves)
  /\ h.pc \in {"saveProfileCmd", "saveProfileAsCmd"}
  /\ saves' = BagRemove(saves, h)
  /\ UNCHANGED << osType, win, rowIndex, ids, inputId, mainUi, settings, txs, appMountPc,
                  opens, stVars >>

\* saveSettingsCmd(settings) of a save handler resolves: the handler ends.
SaveSettingsDone(h) ==
  /\ BagIn(h, saves)
  /\ h.pc = "saveSettings"
  /\ saves' = BagRemove(saves, h)
  /\ UNCHANGED << osType, win, rowIndex, ids, inputId, mainUi, settings, txs, appMountPc,
                  opens, stVars >>

\* saveSettingsCmd(settings) of a save handler rejects: the handler logs the
\* error and ends.
SaveSettingsFailed(h) ==
  /\ BagIn(h, saves)
  /\ h.pc = "saveSettings"
  /\ saves' = BagRemove(saves, h)
  /\ UNCHANGED << osType, win, rowIndex, ids, inputId, mainUi, settings, txs, appMountPc,
                  opens, stVars >>

(***************************************************************************)
(* App: startup (onMount).                                                 *)
(***************************************************************************)
\* loadSettingsInitialCmd() resolves; onMount awaits initializeDatafeedCmd().
\* Its answer res is not read before initializeDatafeedCmd() resolves, and
\* nothing the program does can change it: the model draws it there.
LoadSettingsInitialDone ==
  /\ appMountPc = "loadSettingsInitial"
  /\ appMountPc' = "initializeDatafeed"
  /\ UNCHANGED << osType, win, rowIndex, saves, ids, inputId, mainUi, settings, txs, opens, stVars >>

\* loadSettingsInitialCmd() or initializeDatafeedCmd() rejects: onMount ends.
AppMountFailed ==
  /\ appMountPc \in {"loadSettingsInitial", "initializeDatafeed"}
  /\ appMountPc' = "done"
  /\ UNCHANGED << osType, win, rowIndex, saves, ids, inputId, mainUi, settings, txs, opens, stVars >>

LoadsWheneverProfile(res) == Len(res.profile) = 1

\* The test of onMount: res.profile && settings.loadMostRecentProfileOnOpen
\* (settings is res.settings by then).
LoadsOnOpen(res) ==
  Len(res.profile) = 1 /\ res.settings.loadMostRecentProfileOnOpen

\* initializeDatafeedCmd() resolves: setSettings(res.settings), then the
\* profile, if one is to be loaded.
InitializeDatafeedDone(res) ==
  /\ appMountPc = "initializeDatafeed"
  /\ settings' = res.settings
  /\ IF LoadsOnOpen(res)
       THEN LoadProfile(res.profile[1], "mount", "done")
       ELSE /\ appMountPc' = "done"
            /\ UNCHANGED << ids, mainUi, txs, opens, stRow >>
  /\ UNCHANGED << osType, win, saves, inputId, stKept >>

(***************************************************************************)
(* Metar: the answers of the back end.                                     *)
(***************************************************************************)
\* lookup_station: the fields of Station the component reads.
LookupResults ==
  { [icaoId |-> <<"K", "A", "B", "C">>, faaId |-> <<"A", "B", "C">>],
    [icaoId |-> <<"E", "G", "L", "L">>, faaId |-> <<"-">>] }

\* fetch_metar: altimeter, windString and metar.rawOb of a report.  The
\* altimeter is in thousandths of inHg and tenths of hPa.
MetarBody1 ==
  [altimeter |-> [inHg |-> 29921, hPa |-> 10132], windString |-> "27010KT",
   rawOb |-> "METAR 1"]
MetarBody2 ==
  [altimeter |-> [inHg |-> 30060, hPa |-> 10179], windString |-> "09005KT",
   rawOb |-> "METAR 2"]

\* fetch_metar: metar.obsTime is a time in 1..MaxTs.  Each time has its
\* report, and the first time also has a second report (the back end may
\* answer the same observation time with another body).
MetarResponses ==
  { [obsTime |-> t, body |-> IF t % 2 = 1 THEN MetarBody1 ELSE MetarBody2] :
      t \in 1..MaxTs }
  \cup { [obsTime |-> 1, body |-> MetarBody2] }

\* get_atis
AtisResponses ==
  { [letter |-> "A", texts |-> <<"ATIS A">>],
    [letter |-> "B", texts |-> <<"ARR B", "DEP B">>],
    [letter |-> "-", texts |-> <<>>] }

(***************************************************************************)
(* Metar: state shared by its handlers.                                    *)
(***************************************************************************)
appRest ==
  << osType, win, rowIndex, ids, inputId, settings, appMountPc, opens, saves >>
stIdentity == << requestedId, icaoId, validId, displayId >>
stObservation == << currentTimestamp, altimeter, wind, rawMetar >>
stAdvisory == << atisLetter, atisTexts >>
stPanels == << showFullMetar, showAtisTexts >>
stTimers ==
  << metarTimerHandle, letterTimerHandle, intervals, metarDelay, letterDelay,
     randoms, draws >>

NumMetarTasks == BagCardinality(metarTasks)
NumAtisTasks == BagCardinality(atisTasks)

\* A store write of an object at the root merges its keys into the store.
MergeStore(store, value) ==
  [ k \in (DOMAIN store) \cup (DOMAIN value) |->
      IF k \in DOMAIN value THEN value[k] ELSE store[k] ]

(***************************************************************************)
(* Metar: updateAtis.                                                      *)
(***************************************************************************)
UpdateAtisWhenShown(valid) ==
  IF valid /\ (mainUi.showInput \/ ~mainUi.hideAirportIfMissingAtis \/ atisLetter # "-")
    THEN /\ atisTasks' = BagAdd(atisTasks, [pc |-> "fetch"])
         /\ ApplyFnAndResize(Suppressed, "none")
    ELSE UNCHANGED << atisTasks, mainUi, txs >>

\* updateAtis(), up to where it returns: with a valid id the mutation is
\* handed to resizeAfterFn (applyFnAndResize), which suppresses scrolling,
\* starts the mutation (it suspends at trace(...) and then at
\* updateAtisCmd(icaoId())) and starts resetWindowHeight; neither is awaited.
UpdateAtis(valid) ==
  IF valid
    THEN /\ atisTasks' = BagAdd(atisTasks, [pc |-> "fetch"])
         /\ ApplyFnAndResize(Suppressed, "none")
    ELSE UNCHANGED << atisTasks, mainUi, txs >>

MergeArray(current, next) ==
  [ i \in 1..(IF Len(next) > Len(current) THEN Len(next) ELSE Len(current)) |->
      IF i <= Len(next) THEN next[i] ELSE current[i] ]

\* A store write of an array at the root of an array store: the elements of
\* `next` are written at their indices and the length is set to its length.
ReplaceArray(current, next) == next

\* updateAtisCmd has resolved with res and so has the trace(...) after it:
\* setAtisLetter(res.letter); setAtisTexts(res.texts).
AtisFetched(a, res) ==
  /\ BagIn(a, atisTasks)
  /\ atisLetter' = res.letter
  /\ atisTexts' = ReplaceArray(atisTexts, res.texts)
  /\ atisTasks' = BagRemove(atisTasks, a)
  /\ UNCHANGED << appVars, stIdentity, stObservation, stPanels, stTimers,
                  stPc, disposed, metarTasks >>

AtisFetchFailedResetsLetter(a) ==
  /\ BagIn(a, atisTasks)
  /\ atisTasks' = BagRemove(atisTasks, a)
  /\ atisLetter' = "-"
  /\ atisTexts' = <<>>
  /\ UNCHANGED << appVars, stIdentity, stObservation, stPanels,
                  stTimers, stPc, disposed, metarTasks >>

\* updateAtisCmd rejects: the error is logged and the mutation ends.
AtisFetchFailed(a) ==
  /\ BagIn(a, atisTasks)
  /\ atisTasks' = BagRemove(atisTasks, a)
  /\ UNCHANGED << appVars, stIdentity, stObservation, stAdvisory, stPanels,
                  stTimers, stPc, disposed, metarTasks >>

(***************************************************************************)
(* Metar: getRandomInt.                                                    *)
(***************************************************************************)
\* A value of Math.random() is written << c, k >> and stands for the double
\* c / 2^RandomBits - k / 2^53: a short binary fraction (k = 0), or one of
\* the last doubles below 1 (c = 2^RandomBits, k > 0).
RECURSIVE Pow2(_)
Pow2(n) == IF n = 0 THEN 1 ELSE 2 * Pow2(n - 1)

RandomValues ==
  {<< c, 0 >> : c \in 0..(Pow2(RandomBits) - 1)} \cup
  {<< Pow2(RandomBits), k >> : k \in 1..MaxUlps}

\* The call of Math.random() after n earlier ones: the source repeats the
\* values of `randoms`.
MathRandom(n) == randoms[(n % Len(randoms)) + 1]

\* The exponent of the doubles just below n: the largest e with 2^e < n.
RECURSIVE Log2Below(_)
Log2Below(n) == IF n <= 2 THEN 0 ELSE 1 + Log2Below((n + 1) \div 2)

\* n / d rounded to the nearest integer, a tie going to the even one, as
\* the floating-point operations round their results.
RoundHalfEven(n, d) ==
  LET q == n \div d
      rem == n % d
  IN IF 2 * rem < d THEN q
     ELSE IF 2 * rem > d THEN q + 1
     ELSE IF q % 2 = 0 THEN q ELSE q + 1

\* getRandomInt(min, max) when Math.random() returns x:
\* Math.floor(Math.random() * (maxFloored - minCeiled) + minCeiled), where
\* minCeiled and maxFloored are min and max, both being integers.  For a
\* short fraction the product and the sum are exact.  For 1 - k / 2^53 the
\* product is rounded to q units in the last place below max - min, and the
\* sum to q2 units in the last place below max: the sum is max when q2 = 0.
GetRandomInt(min, max, x) ==
  IF x[2] = 0
    THEN ((x[1] * (max - min)) \div Pow2(RandomBits)) + min
    ELSE LET q == RoundHalfEven((max - min) * x[2],
                                Pow2(Log2Below(max - min) + 1))
             q2 == RoundHalfEven(q, Pow2(Log2Below(max) - Log2Below(max - min)))
         IN IF q2 = 0 THEN max ELSE max - 1

(***************************************************************************)
(* Metar: onMount.                                                         *)
(***************************************************************************)
\* onMount after `await updateMetar()`: the METAR timer is armed, updateAtis()
\* is called and returns, the ATIS timer is armed.  updateAtis() returns a
\* promise that is already settled, so nothing runs in between.
MountAfterUpdateMetar(valid) ==
  /\ metarTimerHandle' = "metarTimer"
  /\ metarDelay' = 1000 * GetRandomInt(120, 150, MathRandom(draws))
  /\ UpdateAtis(valid)
  /\ letterTimerHandle' = "letterTimer"
  /\ letterDelay' = 1000 * GetRandomInt(20, 30, MathRandom(draws + 1))
  /\ draws' = draws + 2
  /\ intervals' = intervals \cup {"metarTimer", "letterTimer"}
  /\ UNCHANGED randoms
  /\ stPc' = "done"

MountProceedsAlways(valid) == TRUE

\* The test of onMount after the lookup: if (validId()).
MountProceeds(valid) == valid

\* onMount after `await fetchAndUpdateStation()`, up to its next suspension.
\* updateMetar() with a valid id suspends (at trace(...), then at
\* updateMetarCmd(icaoId())); otherwise it returns at once.
MountAfterLookup(valid) ==
  IF MountProceeds(valid)
    THEN IF valid
           THEN /\ metarTasks' =
                     BagAdd(metarTasks, [pc |-> "fetch", mount |-> TRUE, res |-> <<>>])
                /\ stPc' = "updateMetar"
                /\ UNCHANGED << stTimers, atisTasks, mainUi, txs >>
           ELSE /\ MountAfterUpdateMetar(valid)
                /\ UNCHANGED metarTasks
    ELSE /\ stPc' = "done"
         /\ UNCHANGED << stTimers, atisTasks, metarTasks, mainUi, txs >>

\* lookupStationCmd resolves with station.
LookupDone(station) ==
  /\ stPc = "lookup"
  /\ icaoId' = station.icaoId
  /\ displayId' = IF station.faaId # <<"-">> THEN station.faaId ELSE station.icaoId
  /\ validId' = TRUE
  /\ MountAfterLookup(TRUE)
  /\ UNCHANGED << appRest, requestedId, stObservation, stAdvisory, stPanels,
                  disposed >>

LookupFailedKeepsDisplay ==
  /\ stPc = "lookup"
  /\ MountAfterLookup(validId)
  /\ UNCHANGED << appRest, requestedId, icaoId, validId, displayId,
                  stObservation, stAdvisory, stPanels, disposed >>

\* lookupStationCmd rejects: setDisplayId(props.requestedId), the error is
\* logged, and onMount goes on.
LookupFailed ==
  /\ stPc = "lookup"
  /\ displayId' = requestedId
  /\ MountAfterLookup(validId)
  /\ UNCHANGED << appRest, requestedId, icaoId, validId, stObservation,
                  stAdvisory, stPanels, disposed >>

(***************************************************************************)
(* Metar: updateMetar.                                                     *)
(***************************************************************************)
\* An updateMetar() call ends.  The one onMount awaits resumes onMount.
UpdateMetarReturns(t) ==
  /\ metarTasks' = BagRemove(metarTasks, t)
  /\ IF t.mount
       THEN MountAfterUpdateMetar(validId)
       ELSE UNCHANGED << stTimers, stPc, atisTasks, mainUi, txs >>

\* currentTimestamp() === undefined || newTimestamp > currentTimestamp()
IsNewer(current, newTimestamp) ==
  current = <<>> \/ newTimestamp > current[1]

\* updateMetarCmd has resolved with res and so has the trace(...) after it:
\* the timestamps are compared.  A newer report waits for
\* trace("New METAR found"); otherwise updateMetar logs and ends.
MetarFetched(t, res) ==
  /\ BagIn(t, metarTasks)
  /\ t.pc = "fetch"
  /\ IF IsNewer(currentTimestamp, res.obsTime)
       THEN /\ metarTasks' =
                 BagAdd(BagRemove(metarTasks, t),
                        [t EXCEPT !.pc = "traceNew", !.res = <<res>>])
            /\ UNCHANGED << stTimers, stPc, atisTasks, mainUi, txs >>
       ELSE UpdateMetarReturns(t)
  /\ UNCHANGED << appRest, stIdentity, stObservation, stAdvisory, stPanels,
                  disposed >>

\* updateMetarCmd rejects: the error is logged and updateMetar ends.
MetarFetchFailed(t) ==
  /\ BagIn(t, metarTasks)
  /\ t.pc = "fetch"
  /\ UpdateMetarReturns(t)
  /\ UNCHANGED << appRest, stIdentity, stObservation, stAdvisory, stPanels,
                  disposed >>

\* trace("New METAR found") resolves: the four setters run.
MetarApply(t) ==
  /\ BagIn(t, metarTasks)
  /\ t.pc = "traceNew"
  /\ currentTimestamp' = << t.res[1].obsTime >>
  /\ altimeter' = MergeStore(altimeter, t.res[1].body.altimeter)
  /\ wind' = t.res[1].body.windString
  /\ rawMetar' = t.res[1].body.rawOb
  /\ UpdateMetarReturns(t)
  /\ UNCHANGED << appRest, stIdentity, stAdvisory, stPanels, disposed >>

(***************************************************************************)
(* Metar: interval timers, teardown, panel toggles.                        *)
(***************************************************************************)
\* The METAR interval fires: updateMetar().
MetarTickRedraws ==
  /\ "metarTimer" \in intervals
  /\ NumMetarTasks < MaxMetarTasks
  /\ metarTasks' =
       IF validId
         THEN BagAdd(metarTasks, [pc |-> "fetch", mount |-> FALSE, res |-> <<>>])
         ELSE metarTasks
  /\ metarDelay' = 1000 * GetRandomInt(120, 150, MathRandom(draws))
  /\ draws' = draws + 1
  /\ UNCHANGED << appVars, stIdentity, stObservation, stAdvisory, stPanels,
                  metarTimerHandle, letterTimerHandle, intervals, letterDelay,
                  randoms, stPc, disposed, atisTasks >>

MetarTick ==
  /\ "metarTimer" \in intervals
  /\ NumMetarTasks < MaxMetarTasks
  /\ metarTasks' =
       IF validId
         THEN BagAdd(metarTasks, [pc |-> "fetch", mount |-> FALSE, res |-> <<>>])
         ELSE metarTasks
  /\ UNCHANGED << appVars, stIdentity, stObservation, stAdvisory, stPanels,
                  stTimers, stPc, disposed, atisTasks >>

\* The ATIS interval fires: updateAtis().
AtisTick ==
  /\ "letterTimer" \in intervals
  /\ NumAtisTasks < MaxAtisTasks
  /\ UpdateAtis(validId)
  /\ UNCHANGED << appRest, stIdentity, stObservation, stAdvisory, stPanels,
                  stTimers, stPc, disposed, metarTasks >>

ToggleShowMetarKeepsAtis(full, atis) ==
  IF full THEN <<FALSE, atis>> ELSE <<TRUE, atis>>

\* The batch of toggleShowMetar: <<showFullMetar, showAtisTexts>> after it.
ToggleShowMetarBatch(full, atis) ==
  IF full THEN <<FALSE, atis>> ELSE <<TRUE, FALSE>>

ToggleShowAtisTextsIgnoresEmpty(full, atis, texts) ==
  IF atis THEN <<full, FALSE>> ELSE <<FALSE, TRUE>>

\* The batch of toggleShowAtisTexts: <<showFullMetar, showAtisTexts>> after it.
ToggleShowAtisTextsBatch(full, atis, texts) ==
  IF Len(texts) = 0
    THEN <<full, FALSE>>
    ELSE IF atis THEN <<full, FALSE>> ELSE <<FALSE, TRUE>>

\* onClick of the altimeter or the wind, while the row is in the document.
ToggleShowMetar ==
  /\ stPc # "unmounted"
  /\ ~disposed
  /\ ApplyFnAndResize(Suppressed, "none")
  /\ showFullMetar' = ToggleShowMetarBatch(showFullMetar, showAtisTexts)[1]
  /\ showAtisTexts' = ToggleShowMetarBatch(showFullMetar, showAtisTexts)[2]
  /\ UNCHANGED << appRest, stIdentity, stObservation, stAdvisory, stTimers,
                  stPc, disposed, metarTasks, atisTasks >>

\* onClick of the ATIS letter, while the row is in the document.
ToggleShowAtisTexts ==
  /\ stPc # "unmounted"
  /\ ~disposed
  /\ ApplyFnAndResize(Suppressed, "none")
  /\ showFullMetar' = ToggleShowAtisTextsBatch(showFullMetar, showAtisTexts, atisTexts)[1]
  /\ showAtisTexts' = ToggleShowAtisTextsBatch(showFullMetar, showAtisTexts, atisTexts)[2]
  /\ UNCHANGED << appRest, stIdentity, stObservation, stAdvisory, stTimers,
                  stPc, disposed, metarTasks, atisTasks >>

(***************************************************************************)
(* Metar: what the row displays.                                           *)
(***************************************************************************)
DigitChars == <<"0", "1", "2", "3", "4", "5", "6", "7", "8", "9">>

\* The decimal digits of the natural number n.
RECURSIVE Digits(_)
Digits(n) ==
  IF n < 10
    THEN << DigitChars[n + 1] >>
    ELSE Append(Digits(n \div 10), DigitChars[(n % 10) + 1])

\* The exponent of the double nearest n / d: floor(log2(n / d)), for n > 0.
RECURSIVE Exponent(_, _)
Exponent(n, d) ==
  IF n >= 2 * d THEN 1 + Exponent(n, 2 * d)
  ELSE IF n < d THEN Exponent(2 * n, d) - 1
  ELSE 0

\* 2^n modulo m.
RECURSIVE PowMod2(_, _)
PowMod2(n, m) == IF n = 0 THEN 1 % m ELSE (2 * PowMod2(n - 1, m)) % m

\* The double that holds the number n / d (the nearest one, a tie going to
\* the even significand) compared with n / d itself: -1 when the double is
\* below it, 0 when it is exact, 1 when it is above.  The significand is
\* n * 2^k / d rounded, with k = 52 - Exponent(n, d); the remainder of that
\* division and the parity of its quotient are read from n * 2^k modulo 2d.
DoubleCompare(n, d) ==
  LET k == 52 - Exponent(n, d)
      r2 == ((n % (2 * d)) * PowMod2(k, 2 * d)) % (2 * d)
      rem == r2 % d
  IN IF rem = 0 THEN 0
     ELSE IF 2 * rem < d THEN -1
     ELSE IF 2 * rem > d THEN 1
     ELSE IF r2 < d THEN -1 ELSE 1

\* (x).toFixed(2) where x is the double that holds thousandths / 1000: the
\* hundredths nearest to the double, the larger one on a tie.  A value that
\* ends in 5 thousandths goes by the side its double lies on.
ToFixed2(thousandths) ==
  LET last == thousandths % 10
      up == last > 5 \/ (last = 5 /\ DoubleCompare(thousandths, 1000) >= 0)
      hundredths == (thousandths \div 10) + (IF up THEN 1 ELSE 0)
  IN  Digits(hundredths \div 100) \o <<".">>
        \o << DigitChars[((hundredths \div 10) % 10) + 1],
              DigitChars[(hundredths % 10) + 1] >>

\* (x).toFixed(0) for x given in tenths: rounded to a whole number.  A value
\* that ends in 5 tenths is held exactly and goes up.
ToFixed0(tenths) == Digits((tenths + 5) \div 10)

\* altimeterString, for a store value and a unit.
AltimeterStringOf(store, units) ==
  IF units = "inHg"
    THEN IF store.inHg = 0 THEN <<>> ELSE ToFixed2(store.inHg)
    ELSE IF store.hpa = 0 THEN <<>> ELSE ToFixed0(store.hpa)

\* altimeterString
AltimeterString == AltimeterStringOf(altimeter, mainUi.units)

RenderedUnlessHideSet(showInput, hide, letter) == ~hide \/ letter # "-"

\* The `when` of the outer <Show> of the row.
RenderedWhen(showInput, hide, letter) == showInput \/ ~hide \/ letter # "-"

\* The row of the station is rendered.
Rendered ==
  RenderedWhen(mainUi.showInput, mainUi.hideAirportIfMissingAtis, atisLetter)

(***************************************************************************)
(* Initial states.                                                         *)
(***************************************************************************)
\* The signals and stores of the App component as it is created.
AppCreated ==
  /\ osType \in OsTypes
  /\ rowIndex = -1
  /\ ids = <<>>
  /\ inputId = <<>>
  /\ mainUi = [showScroll |-> TRUE, showInput |-> TRUE, showTitlebar |-> TRUE,
               units |-> "inHg", hideAirportIfMissingAtis |-> FALSE]
  /\ settings = [loadMostRecentProfileOnOpen |-> TRUE, alwaysOnTop |-> TRUE,
                 autoResize |-> TRUE]
  /\ txs = EmptyBag
  /\ appMountPc = "loadSettingsInitial"
  /\ opens = EmptyBag
  /\ saves = EmptyBag

\* The signals and stores of a Metar component as it is created.
StCreated ==
  /\ disposed = FALSE
  /\ icaoId = <<>>
  /\ validId = FALSE
  /\ displayId = <<>>
  /\ currentTimestamp = <<>>
  /\ altimeter = [inHg |-> 0, hpa |-> 0]
  /\ wind = ""
  /\ rawMetar = ""
  /\ showFullMetar = FALSE
  /\ atisLetter = "-"
  /\ atisTexts = <<>>
  /\ showAtisTexts = FALSE
  /\ metarTimerHandle = "undefined"
  /\ letterTimerHandle = "undefined"
  /\ intervals = {}
  /\ metarDelay = 0
  /\ letterDelay = 0
  /\ draws = 0
  /\ metarTasks = EmptyBag
  /\ atisTasks = EmptyBag

\* The App with its station input, its delete buttons and its toggles, the
\* profile being the one loaded at startup, the window calls failing or not.
AppNext ==
  \/ \E v \in InputIds : SetInputId(v)
  \/ AddStation
  \/ \E i \in 0..MaxStations : RemoveStation(i)
  \/ ToggleInput
  \/ ToggleTitlebar
  \/ ToggleUnits
  \/ LoadSettingsInitialDone
  \/ AppMountFailed
  \/ \E res \in InitialLoads : InitializeDatafeedDone(res)
  \/ \E t \in BagToSet(txs) : Measured(t)
  \/ \E t \in BagToSet(txs) : SetSizeDone(t)
  \/ \E t \in BagToSet(txs) : ResizeFailed(t)

\* The App with its profile and settings shortcuts, the list and the flags
\* as loaded.
PersistNext ==
  \/ OpenProfile
  \/ \E p \in Profiles : OpenProfileLoaded(p)
  \/ OpenProfileFailed
  \/ OpenSaveSettingsDone
  \/ OpenSaveSettingsFailed
  \/ SaveProfile
  \/ SaveProfileAs
  \/ \E h \in BagToSet(saves) : ProfileSaved(h)
  \/ \E h \in BagToSet(saves) : ProfileSaveFailed(h)
  \/ \E h \in BagToSet(saves) : SaveSettingsDone(h)
  \/ \E h \in BagToSet(saves) : SaveSettingsFailed(h)
  \/ LoadSettingsInitialDone
  \/ AppMountFailed
  \/ \E res \in InitialLoads : InitializeDatafeedDone(res)
  \/ \E t \in BagToSet(txs) : Measured(t)
  \/ \E t \in BagToSet(txs) : SetSizeDone(t)

\* No station row is mounted.
StNone ==
  /\ requestedId = <<>>
  /\ stPc = "unmounted"
  /\ randoms = << <<0, 0>>, <<0, 0>> >>
  /\ StCreated

\* The App has been created and awaits loadSettingsInitialCmd(); no station
\* row is mounted.
AppInit ==
  /\ AppCreated
  /\ StNone
  /\ win = FirstWindow

\* The App orchestrator alone.
AppSpec == AppInit /\ [][AppNext]_vars

\* The App as it is created, as in AppInit.
PersistInit == AppInit

\* The App as it is created, in any window.
ResizeInit ==
  /\ AppCreated
  /\ StNone
  /\ win \in Windows

\* The App without its station input, the window calls failing or not.
ResizeNext ==
  \/ ToggleInput
  \/ ToggleTitlebar
  \/ OpenProfile
  \/ \E p \in Profiles : OpenProfileLoaded(p)
  \/ OpenProfileFailed
  \/ OpenSaveSettingsDone
  \/ LoadSettingsInitialDone
  \/ AppMountFailed
  \/ \E res \in InitialLoads : InitializeDatafeedDone(res)
  \/ \E t \in BagToSet(txs) : Measured(t)
  \/ \E t \in BagToSet(txs) : SetSizeDone(t)
  \/ \E t \in BagToSet(txs) : ResizeFailed(t)

\* The App and the window it resizes.
ResizeSpec == ResizeInit /\ [][ResizeNext]_vars

\* The App and the persistence calls of its shortcuts.
PersistSpec == PersistInit /\ [][PersistNext]_vars

\* The station list, the flags and the settings after a startup that loaded
\* the profile of three stations with everything shown, in inHg.
AsStarted ==
  /\ ids = << <<"A", "B", "C", "D">>, <<"A", "B", "C">>, <<"X", "Y", "Z">> >>
  /\ mainUi = [showScroll |-> TRUE, showInput |-> TRUE, showTitlebar |-> TRUE,
               units |-> "inHg", hideAirportIfMissingAtis |-> FALSE]
  /\ settings = [loadMostRecentProfileOnOpen |-> TRUE, alwaysOnTop |-> TRUE,
                 autoResize |-> TRUE]

\* The App has started, its first row is mounted, and one shortcut handler
\* has just begun: Ctrl/Cmd + O awaits loadProfileCmd(), or Ctrl/Cmd + S or
\* Ctrl/Cmd + Shift + S awaits its command with currentProfileState().
HandlerInit ==
  /\ osType \in OsTypes
  /\ win \in Windows
  /\ AsStarted
  /\ inputId = <<>>
  /\ txs = EmptyBag
  /\ appMountPc = "done"
  /\ rowIndex = 0
  /\ requestedId = <<"A", "B", "C", "D">>
  /\ stPc = "lookup"
  /\ randoms = << <<0, 0>>, <<0, 0>> >>
  /\ StCreated
  /\ \/ opens = SetToBag({"loadProfileCmd"}) /\ saves = EmptyBag
     \/ /\ opens = EmptyBag
        /\ \E pc \in {"saveProfileCmd", "saveProfileAsCmd"} :
             saves = SetToBag({[pc |-> pc, arg |-> CurrentProfileState]})

\* What is left of one shortcut handler once it has begun: the persistence
\* calls and the window calls it awaits, resolving or rejecting.
HandlerNext ==
  \/ \E p \in Profiles : OpenProfileLoaded(p)
  \/ OpenProfileFailed
  \/ OpenSaveSettingsDone
  \/ OpenSaveSettingsFailed
  \/ \E h \in BagToSet(saves) : ProfileSaved(h)
  \/ \E h \in BagToSet(saves) : ProfileSaveFailed(h)
  \/ \E h \in BagToSet(saves) : SaveSettingsDone(h)
  \/ \E h \in BagToSet(saves) : SaveSettingsFailed(h)
  \/ \E t \in BagToSet(txs) : Measured(t)
  \/ \E t \in BagToSet(txs) : SetSizeDone(t)
  \/ \E t \in BagToSet(txs) : ResizeFailed(t)

\* One shortcut handler of a started App, from its first await to its end.
HandlerSpec == HandlerInit /\ [][HandlerNext]_vars

\* A station row has just been mounted (onMount awaits debug(...) and then
\* lookupStationCmd(props.requestedId)) in an App that has started.
StMounted ==
  /\ osType = "windows"
  /\ win = FirstWindow
  /\ requestedId = <<"A", "B", "C">>
  /\ ids = << requestedId >>
  /\ rowIndex = 0
  /\ inputId = <<>>
  /\ mainUi = [showScroll |-> TRUE, showInput |-> TRUE, showTitlebar |-> TRUE,
               units |-> "inHg", hideAirportIfMissingAtis |-> FALSE]
  /\ settings = [loadMostRecentProfileOnOpen |-> TRUE, alwaysOnTop |-> TRUE,
                 autoResize |-> TRUE]
  /\ txs = EmptyBag
  /\ appMountPc = "done"
  /\ opens = EmptyBag
  /\ saves = EmptyBag
  /\ stPc = "lookup"
  /\ StCreated

\* The mounted row where Math.random() will return 0.
StInit ==
  /\ StMounted
  /\ randoms = << <<0, 0>>, <<0, 0>> >>

StNext ==
  \/ \E station \in LookupResults : LookupDone(station)
  \/ LookupFailed
  \/ \E t \in BagToSet(metarTasks), res \in MetarResponses : MetarFetched(t, res)
  \/ \E t \in BagToSet(metarTasks) : MetarFetchFailed(t)
  \/ \E t \in BagToSet(metarTasks) : MetarApply(t)
  \/ \E a \in BagToSet(atisTasks), res \in AtisResponses : AtisFetched(a, res)
  \/ \E a \in BagToSet(atisTasks) : AtisFetchFailed(a)
  \/ MetarTick
  \/ AtisTick
  \/ \E i \in 0..MaxStations : RemoveStation(i)
  \/ ToggleShowMetar
  \/ ToggleShowAtisTexts
  \/ \E t \in BagToSet(txs) : Measured(t)
  \/ \E t \in BagToSet(txs) : SetSizeDone(t)

\* One station monitor from its mount on.
Spec == StInit /\ [][StNext]_vars

\* Every call but the METAR fetch settles and every continuation runs: the
\* lookup resolves or rejects, an ATIS fetch resolves or rejects, the
\* continuation after trace("New METAR found") runs, a resize goes on.
OthersSettle ==
  \/ \E station \in LookupResults : LookupDone(station)
  \/ LookupFailed
  \/ \E t \in BagToSet(metarTasks) : MetarApply(t)
  \/ \E a \in BagToSet(atisTasks), res \in AtisResponses : AtisFetched(a, res)
  \/ \E a \in BagToSet(atisTasks) : AtisFetchFailed(a)
  \/ \E t \in BagToSet(txs) : Measured(t)
  \/ \E t \in BagToSet(txs) : SetSizeDone(t)

\* One station monitor whose METAR fetches may never settle, while all the
\* rest of its pending work is done in the end.
HungMetarSpec == StInit /\ [][StNext]_vars /\ WF_vars(OthersSettle)

\* The values of the first two Math.random() calls.
RandomTapes == [1..2 -> RandomValues]

\* The mounted row, whatever Math.random() will return.
TimerInit ==
  /\ StMounted
  /\ randoms \in RandomTapes

TimerNext ==
  \/ \E station \in LookupResults : LookupDone(station)
  \/ LookupFailed
  \/ \E t \in BagToSet(metarTasks) : MetarFetchFailed(t)
  \/ \E a \in BagToSet(atisTasks) : AtisFetchFailed(a)
  \/ MetarTick
  \/ AtisTick
  \/ \E t \in BagToSet(txs) : Measured(t)
  \/ \E t \in BagToSet(txs) : SetSizeDone(t)

\* One station monitor and its two timers, the fetches failing.
TimerSpec == TimerInit /\ [][TimerNext]_vars

\* The station row is mounted, as in StInit.
ViewInit == StInit

ViewNext ==
  \/ \E station \in LookupResults : LookupDone(station)
  \/ LookupFailed
  \/ \E t \in BagToSet(metarTasks), res \in MetarResponses : MetarFetched(t, res)
  \/ \E t \in BagToSet(metarTasks) : MetarFetchFailed(t)
  \/ \E t \in BagToSet(metarTasks) : MetarApply(t)
  \/ \E a \in BagToSet(atisTasks), res \in AtisResponses : AtisFetched(a, res)
  \/ \E a \in BagToSet(atisTasks) : AtisFetchFailed(a)
  \/ MetarTick
  \/ AtisTick
  \/ ToggleUnits
  \/ ToggleInput
  \/ ToggleHide
  \/ \E t \in BagToSet(txs) : Measured(t)
  \/ \E t \in BagToSet(txs) : SetSizeDone(t)

\* One station monitor polling while the user switches units, input panel
\* and the hiding of stations without ATIS; the row stays mounted and its
\* panels closed.
ViewSpec == ViewInit /\ [][ViewNext]_vars

(***************************************************************************)
(* Station monitor: observation timestamp (C1, C2).                        *)
(***************************************************************************)
\* C1: currentTimestamp never decreases: once it holds a time t it never
\* later holds an earlier time, nor becomes undefined.
C1_TimestampNeverDecreases ==
  [][currentTimestamp # <<>> =>
       /\ currentTimestamp' # <<>>
       /\ currentTimestamp'[1] >= currentTimestamp[1]]_vars

\* The four observation fields hold the values of METAR response res.
ObservationIs(res) ==
  /\ currentTimestamp' = << res.obsTime >>
  /\ altimeter'.inHg = res.body.altimeter.inHg
  /\ altimeter'.hPa = res.body.altimeter.hPa
  /\ wind' = res.body.windString
  /\ rawMetar' = res.body.rawOb

\* C2: a METAR result not newer than the stored timestamp leaves timestamp,
\* altimeter, wind and raw text unchanged: whenever one of the four changes,
\* no timestamp was stored or the new one is strictly newer, and all four
\* are those of one result.
C2_OnlyNewerResultApplied ==
  [][stObservation' # stObservation =>
       /\ \E res \in MetarResponses : ObservationIs(res)
       /\ \/ currentTimestamp = <<>>
          \/ currentTimestamp'[1] > currentTimestamp[1]]_vars

(***************************************************************************)
(* Station monitor: panels (C3).                                           *)
(***************************************************************************)
\* C3: the full METAR text and the ATIS texts are never both shown.
C3_PanelsMutuallyExclusive == ~(showFullMetar /\ showAtisTexts)

\* The ATIS texts are shown (toggleShowAtisTexts has switched them on) on a
\* station that has a METAR to show.
C3_Witness == showAtisTexts /\ ~showFullMetar /\ rawMetar # ""

(***************************************************************************)
(* Station monitor: teardown (C4, C5).                                     *)
(***************************************************************************)
\* C4: after onCleanup the instance holds no armed timer and starts no
\* further updateMetar or updateAtis fetch.
C4_NoTimerNoFetchAfterTeardown ==
  /\ [](disposed => intervals = {})
  /\ [][disposed =>
          /\ NumMetarTasks' <= NumMetarTasks
          /\ NumAtisTasks' <= NumAtisTasks]_vars

\* C5: after onCleanup, the completion of a lookup or fetch that was in
\* flight changes none of the instance's state and starts no resize.
C5_CompletionAfterTeardownIsDiscarded ==
  [][disposed =>
       /\ UNCHANGED << validId, displayId, currentTimestamp, altimeter, wind,
                       rawMetar, atisLetter, atisTexts >>
       /\ NumTx' <= NumTx]_vars

(***************************************************************************)
(* Station monitor: validity gates polling (C6).                           *)
(***************************************************************************)
\* C6: while validId is false no timer is armed, no timer handle is stored
\* and no METAR or ATIS fetch is in flight.
C6_InvalidNeverPolls ==
  ~validId =>
    /\ intervals = {}
    /\ metarTimerHandle = "undefined"
    /\ letterTimerHandle = "undefined"
    /\ NumMetarTasks = 0
    /\ NumAtisTasks = 0

\* The lookup has failed and onMount has ended.
C6_Witness == stPc = "done" /\ ~validId /\ displayId = requestedId

(***************************************************************************)
(* App: station list (C7, C8, C9).                                         *)
(***************************************************************************)
\* C7: addStation with an input of length 3 or 4 appends it (length + 1, the
\* input last, the earlier elements unchanged and in order); with an input
\* of any other length it leaves the list unchanged.
C7_AddStationAppends ==
  [][AddStation =>
       IF Len(inputId) \in {3, 4}
         THEN /\ Len(ids') = Len(ids) + 1
              /\ ids'[Len(ids')] = inputId
              /\ \A i \in 1..Len(ids) : ids'[i] = ids[i]
         ELSE ids' = ids]_vars

\* Two inputs were appended in turn and a five-character input has been
\* submitted and refused (it is still in the input, its resize is pending).
C7_Witness ==
  /\ ids = << <<"A", "B", " ">>, <<"A", "B", "C", "D">> >>
  /\ Len(inputId) = 5
  /\ NumTx > 0

\* String.prototype.trim: s without its leading and trailing white space.
Trim(s) ==
  LET solid == { i \in 1..Len(s) : s[i] # " " }
      first == CHOOSE i \in solid : \A j \in solid : i <= j
      last == CHOOSE i \in solid : \A j \in solid : i >= j
  IN  IF solid = {} THEN <<>> ELSE SubSeq(s, first, last)

\* C8 as claimed: addStation accepts the input if and only if its trimmed
\* length is 3 or 4.
C8_AcceptsIffTrimmedLength ==
  [][AddStation =>
       (ids' # ids <=> Len(Trim(inputId)) \in {3, 4})]_vars

\* C8 as amended: addStation accepts the input if and only if its raw
\* length is 3 or 4.  So an input of raw length 3 or 4 whose trimmed length
\* is below 3 is accepted, and an input of trimmed length 3 or 4 whose raw
\* length exceeds 4 is refused.
C8_AcceptsIffRawLength ==
  [][AddStation =>
       /\ (Len(ids') = Len(ids) + 1) <=> (Len(inputId) >= 3 /\ Len(inputId) <= 4)
       /\ (Len(inputId) \in {3, 4} /\ Len(Trim(inputId)) < 3) => ids' # ids
       /\ (Len(Trim(inputId)) \in {3, 4} /\ Len(inputId) > 4) => ids' = ids]_vars

\* An id of raw length 3 and trimmed length 2 is in the list, and an input
\* of raw length 5 and trimmed length 4 has been submitted and refused.
C8_Witness ==
  /\ \E i \in 1..Len(ids) : Len(ids[i]) = 3 /\ Len(Trim(ids[i])) = 2
  /\ Len(inputId) = 5 /\ Len(Trim(inputId)) = 4
  /\ NumTx > 0

\* C9: removeStation(i), 0 <= i < len, yields the list with the element at
\* position i deleted: one shorter, the others in their order.
C9_RemoveStationDeletesIndex ==
  [][\A i \in 0..MaxStations :
       RemoveStation(i) =>
         /\ Len(ids') = Len(ids) - 1
         /\ \A j \in 1..Len(ids') :
              ids'[j] = IF j <= i THEN ids[j] ELSE ids[j + 1]]_vars

\* The middle station of a loaded three-station list has been removed.
C9_Witness ==
  /\ ids = << <<"A", "B", "C", "D">>, <<"X", "Y", "Z">> >>
  /\ NumTx > 0

(***************************************************************************)
(* App: profile load (C10).                                                *)
(***************************************************************************)
\* Only the open-profile shortcut and onMount, at these positions, call
\* loadProfile.
LoadProfileCallable ==
  BagIn("loadProfileCmd", opens) \/ appMountPc = "initializeDatafeed"

\* loadProfile(p) is called: by the open-profile shortcut, or by onMount.
LoadProfileCalled(p) ==
  \/ OpenProfileLoaded(p)
  \/ /\ appMountPc = "initializeDatafeed"
     /\ \E st \in SettingsValues :
          /\ st.loadMostRecentProfileOnOpen
          /\ InitializeDatafeedDone([settings |-> st, profile |-> <<p>>])

\* C10: loadProfile with a profile whose window field is absent or null
\* starts exactly one resize, with the station list and the flags of the
\* profile in place; with a profile that carries a geometry it starts none.
C10_ResizesOnceUnlessGeometry ==
  [][LoadProfileCallable =>
       \A p \in Profiles :
         LoadProfileCalled(p) =>
           /\ ids' = p.stations
           /\ mainUi'.showInput = p.showInput
           /\ mainUi'.showTitlebar = p.showTitlebar
           /\ mainUi'.units = p.units
           /\ NumTx' = IF p.window = "geometry" THEN NumTx ELSE NumTx + 1]_vars

(***************************************************************************)
(* App: profile load is one step (C11).                                    *)
(***************************************************************************)
\* C11: loadProfile replaces the station list and the flags showInput,
\* showTitlebar and units in one step: after the step all four are those of
\* the profile, and no other step replaces the list (only addStation and
\* removeStation change it, by one element).
C11_LoadProfileAtomic ==
  [][/\ (LoadProfileCallable /\ (opens' # opens \/ appMountPc' # appMountPc)) =>
          \A p \in Profiles :
            LoadProfileCalled(p) =>
              << ids', mainUi'.showInput, mainUi'.showTitlebar, mainUi'.units >>
                = << p.stations, p.showInput, p.showTitlebar, p.units >>
     /\ (ids' # ids /\ Len(ids') = Len(ids)) =>
          \E p \in Profiles : LoadProfileCalled(p)]_vars

\* On macOS, where no shortcut hides the titlebar, the open-profile shortcut
\* has loaded a three-station profile that hides titlebar and input and
\* selects hPa, and awaits the resize.
C11_Witness ==
  /\ osType = "macos"
  /\ BagIn("resize", opens)
  /\ Len(ids) = 3
  /\ ~mainUi.showTitlebar /\ ~mainUi.showInput /\ mainUi.units = "hPa"

(***************************************************************************)
(* App: the apply-and-resize transaction (C12, C13, C14, C19).             *)
(***************************************************************************)
\* The number of transactions in bag b that are at position pc.
TxAt(b, pc) ==
  LET at == {t \in BagToSet(b) : t.pc = pc}
  IN IF at = {} THEN 0 ELSE BagCardinality([t \in at |-> b[t]])

\* C12: an invocation of applyFnAndResize suppresses scrolling and runs the
\* mutation (it then awaits the measurement), next issues its one resize
\* request, and last restores scrolling: a transaction starts suppressed and
\* before its request, a request is issued by a transaction that awaited the
\* measurement, and a transaction ends only after its request, restoring
\* scrolling.
C12_StepsInOrderOneRequest ==
  [][/\ NumTx' > NumTx =>
          /\ ~mainUi'.showScroll
          /\ TxAt(txs', "measure") = TxAt(txs, "measure") + 1
          /\ TxAt(txs', "setSize") = TxAt(txs, "setSize")
     /\ TxAt(txs', "setSize") > TxAt(txs, "setSize") =>
          /\ TxAt(txs', "setSize") = TxAt(txs, "setSize") + 1
          /\ TxAt(txs', "measure") = TxAt(txs, "measure") - 1
          /\ mainUi' = mainUi /\ ids' = ids
     /\ NumTx' < NumTx =>
          /\ TxAt(txs', "setSize") = TxAt(txs, "setSize") - 1
          /\ TxAt(txs', "measure") = TxAt(txs, "measure")
          /\ mainUi'.showScroll]_vars

\* C13: with an asynchronous mutation (the ATIS refresh) the measurement
\* and the resize request happen only after the mutation has completed;
\* so each ATIS fetch in flight has its transaction still before the
\* measurement.
C13_ResizeAfterAsyncMutation == NumAtisTasks <= TxAt(txs, "measure")

\* C14: resize requests of overlapping transactions are collapsed: from the
\* start of a pending transaction to its end at most one resize request is
\* issued; so no two transactions have both issued their request and not
\* yet ended.
C14_RequestsCollapsed == TxAt(txs, "setSize") <= 1

\* C19: showScroll is false exactly while at least one transaction is
\* between its suppress step and its restore step.
C19_SuppressedWhileInFlight == (NumTx > 0) <=> ~mainUi.showScroll

(***************************************************************************)
(* App: startup (C18).                                                     *)
(***************************************************************************)
\* C18: at startup loadProfile runs if and only if loadSettingsInitial has
\* returned a profile and the loaded settings have
\* loadMostRecentProfileOnOpen; otherwise the startup leaves the station
\* list and the flags as they are and starts no resize.
C18_StartupLoadsIffProfileAndSetting ==
  [][(appMountPc = "initializeDatafeed" /\ appMountPc' # appMountPc) =>
       \A res \in InitialLoads :
         InitializeDatafeedDone(res) =>
           /\ settings' = res.settings
           /\ IF Len(res.profile) = 1 /\ res.settings.loadMostRecentProfileOnOpen
                THEN LoadProfileCalled(res.profile[1])
                ELSE /\ UNCHANGED << ids, mainUi, txs >>
                     /\ appMountPc' = "done"]_vars

\* The startup has ended with loadMostRecentProfileOnOpen false: the list
\* is empty and the flags are those the App was created with.
C18_Witness ==
  /\ appMountPc = "done"
  /\ ~settings.loadMostRecentProfileOnOpen
  /\ ids = <<>>
  /\ mainUi.showInput /\ mainUi.showTitlebar /\ mainUi.units = "inHg"

(***************************************************************************)
(* Station monitor: polling (C20).                                         *)
(***************************************************************************)
\* C20: at most one METAR fetch and at most one ATIS fetch of a station is
\* in flight at any time.
C20_OneFetchInFlight == NumMetarTasks <= 1 /\ NumAtisTasks <= 1

(***************************************************************************)
(* Station monitor: what the row displays (C15, C16).                      *)
(***************************************************************************)
\* C15: once an observation with altimeter {inHg: a, hPa: h}, both
\* non-zero, has been accepted, the displayed altimeter string is the
\* rendering of a when the unit is inHg and of h when it is hPa, and it is
\* not empty.
C15_AltimeterShownInSelectedUnit ==
  currentTimestamp # <<>> =>
    /\ AltimeterString # <<>>
    /\ \E res \in MetarResponses :
         /\ res.obsTime = currentTimestamp[1]
         /\ res.body.rawOb = rawMetar
         /\ AltimeterString =
              IF mainUi.units = "inHg"
                THEN ToFixed2(res.body.altimeter.inHg)
                ELSE ToFixed0(res.body.altimeter.hPa)

\* C16: the row is rendered if and only if the input is shown, or stations
\* without ATIS are not hidden, or the ATIS letter is not "-": it is left
\* out exactly when the input is hidden, the hiding is on and the letter is
\* "-", and it is always rendered while the input is shown.
C16_RenderedUnlessHiddenWithoutAtis ==
  /\ ~Rendered <=>
       (~mainUi.showInput /\ mainUi.hideAirportIfMissingAtis /\ atisLetter = "-")
  /\ mainUi.showInput => Rendered

\* A valid station with an accepted observation is left out: the input is
\* hidden, the hiding is on and the station has no ATIS.
C16_Witness ==
  /\ ~Rendered
  /\ validId
  /\ currentTimestamp # <<>>
  /\ atisLetter = "-"

(***************************************************************************)
(* App: the profile that is saved (C17).                                   *)
(***************************************************************************)
\* C17: the Profile built for save and save-as holds the station list in
\* display order and the current showInput, showTitlebar, units and
\* hideAirportIfMissingAtis, so that loading it, into whatever store,
\* restores the list and all these flags.
C17_SavedProfileRestoresState ==
  LET p == CurrentProfileState
      flags == {"showInput", "showTitlebar", "units",
                "hideAirportIfMissingAtis"}
  IN  /\ p.stations = ids
      /\ \A f \in flags : f \in DOMAIN p /\ p[f] = mainUi[f]
      /\ \A q \in Profiles :
           \A f \in flags :
             ProfileApplied(ProfileApplied(mainUi, q), p)[f] = mainUi[f]

(***************************************************************************)
(* Station monitor: arming the timers (C21).                               *)
(***************************************************************************)
\* C21: each timer is armed only when its own initial fetch has settled:
\* in the step that arms the METAR timer the METAR fetch of onMount is no
\* longer in flight, and in the step that arms the ATIS timer no ATIS fetch
\* is in flight.
C21_TimerArmedAfterOwnInitialFetch ==
  [][/\ ("metarTimer" \notin intervals /\ "metarTimer" \in intervals') =>
          (\A t \in BagToSet(metarTasks') : ~t.mount)
     /\ ("letterTimer" \notin intervals /\ "letterTimer" \in intervals') =>
          (NumAtisTasks' = 0)]_vars

\* C22: the METAR and the ATIS part do not wait for each other.  After a
\* successful lookup the ATIS timer is armed in the end (the first ATIS fetch
\* having been issued) even when the METAR fetch never settles; and an ATIS
\* fetch in flight never keeps the armed METAR timer from issuing a fetch.
C22_MetarAndAtisIndependent ==
  /\ (validId /\ stPc = "updateMetar") ~>
       ("letterTimer" \in intervals \/ disposed)
  /\ []((/\ NumAtisTasks > 0
          /\ "metarTimer" \in intervals
          /\ NumMetarTasks < MaxMetarTasks) => ENABLED MetarTick)

(***************************************************************************)
(* Station monitor: failures (C23, C24).                                   *)
(***************************************************************************)
\* What a failed fetch must leave alone: the six display fields unchanged,
\* no timer cancelled, the id still valid (so the next tick fetches).
FailureLeavesStationAlone ==
  /\ UNCHANGED << stObservation, stAdvisory >>
  /\ intervals \subseteq intervals'
  /\ validId' = validId

\* C23: a failed METAR or ATIS fetch leaves timestamp, altimeter, wind, raw
\* text, ATIS letter and ATIS texts unchanged and cancels no timer, and the
\* station stays valid, so the next tick of either timer issues a fetch.
C23_FetchFailureChangesNothing ==
  [][/\ \A t \in BagToSet(metarTasks) :
          (MetarFetchFailed(t) => FailureLeavesStationAlone)
     /\ \A a \in BagToSet(atisTasks) :
          (AtisFetchFailed(a) => FailureLeavesStationAlone)]_vars

\* The first METAR fetch of a valid station has failed (no observation was
\* ever accepted) and onMount has armed both timers all the same, while an
\* ATIS letter is shown.
C23_Witness ==
  /\ validId /\ stPc = "done"
  /\ currentTimestamp = <<>> /\ NumMetarTasks = 0
  /\ atisLetter = "A"
  /\ intervals = {"metarTimer", "letterTimer"}

\* C24: after a failed lookup displayId is requestedId, validId stays false
\* and icaoId stays empty for good, and the lookup is never issued again.
C24_LookupFailureIsTerminal ==
  /\ []((stPc # "lookup" /\ ~validId) =>
          (displayId = requestedId /\ icaoId = <<>>))
  /\ [][stPc # "lookup" =>
          (stPc' # "lookup" /\ (~validId => ~validId'))]_vars

\* The lookup failed, and later the row was removed.
C24_Witness ==
  /\ stPc = "done" /\ ~validId /\ disposed
  /\ displayId = requestedId /\ icaoId = <<>>

(***************************************************************************)
(* Station monitor: the polling intervals (C26, C27).                      *)
(***************************************************************************)
\* C26: the delay of the METAR timer is a whole number of seconds from 120
\* to 149, that of the ATIS timer a whole number of seconds from 20 to 29.
C26_IntervalsInRange ==
  /\ metarTimerHandle # "undefined" =>
       (metarDelay % 1000 = 0 /\ metarDelay \div 1000 \in 120..149)
  /\ letterTimerHandle # "undefined" =>
       (letterDelay % 1000 = 0 /\ letterDelay \div 1000 \in 20..29)

\* C27 as stated: the METAR interval is drawn anew for each cycle, so every
\* fetch issued by the timer comes with a call of getRandomInt.
C27_RedrawnEachCycle ==
  [][MetarTick => draws' = draws + 1]_vars

\* C27, amended: the METAR interval is drawn once, in the step that arms the
\* timer, and stays as it is from then on; no later step calls getRandomInt.
C27_DrawnOnceWhenArmed ==
  [][/\ (metarTimerHandle # "undefined") => (metarDelay' = metarDelay)
     /\ (draws' # draws) =>
          (metarTimerHandle = "undefined" /\ metarTimerHandle' = "metarTimer")]_vars

\* The timer runs with a 135 s interval drawn at mount, and as many of its
\* fetches as may be are in flight.
C27_Witness ==
  /\ metarDelay = 135000 /\ draws = 2
  /\ NumMetarTasks = MaxMetarTasks

(***************************************************************************)
(* Station monitor: ATIS letter and texts (C25), their panel (C28).        *)
(***************************************************************************)
\* C25: every successful ATIS fetch writes letter and texts of its response,
\* whatever was stored; nothing else writes them; so the pair is always
\* that of one response (the one that completed last).
C25_AtisLastWriteWins ==
  /\ [](\E res \in AtisResponses :
          atisLetter = res.letter /\ atisTexts = res.texts)
  /\ [][(\A a \in BagToSet(atisTasks) : \A res \in AtisResponses :
            (AtisFetched(a, res) =>
               (atisLetter' = res.letter /\ atisTexts' = res.texts)))
         /\
         ((stAdvisory' # stAdvisory) =>
            (\E a \in BagToSet(atisTasks) : \E res \in AtisResponses :
               AtisFetched(a, res)))]_vars

\* The one-text ATIS A is stored while the next ATIS fetch is in flight and
\* an observation is shown.
C25_Witness ==
  /\ atisLetter = "A" /\ atisTexts = <<"ATIS A">>
  /\ NumAtisTasks > 0
  /\ currentTimestamp # <<>>

\* C28: toggleShowAtisTexts with no ATIS texts leaves showAtisTexts false
\* and showFullMetar as it is; with texts it flips showAtisTexts and, when
\* that becomes true, sets showFullMetar false (and else leaves it).
C28_ToggleAtisTextsFrame ==
  [][ToggleShowAtisTexts =>
       IF atisTexts = <<>>
         THEN ~showAtisTexts' /\ showFullMetar' = showFullMetar
         ELSE /\ showAtisTexts' = ~showAtisTexts
              /\ showFullMetar' = IF showAtisTexts' THEN FALSE ELSE showFullMetar]_vars

\* The two texts of ATIS B are shown, the full METAR is not, and the resize
\* of the toggle is pending.
C28_Witness ==
  /\ showAtisTexts /\ ~showFullMetar
  /\ atisLetter = "B" /\ Len(atisTexts) = 2
  /\ NumTx > 0

(***************************************************************************)
(* App: persistence failures (C29), settings saved with a profile (C30).   *)
(***************************************************************************)
\* A persistence call of a shortcut handler rejects.
PersistenceFailure ==
  \/ OpenProfileFailed
  \/ OpenSaveSettingsFailed
  \/ \E h \in BagToSet(saves) : ProfileSaveFailed(h)
  \/ \E h \in BagToSet(saves) : SaveSettingsFailed(h)

\* C29 as stated: when loadProfileCmd, saveProfileCmd, saveProfileAsCmd or
\* saveSettingsCmd of a shortcut handler rejects, the station list, the UI
\* flags and the settings are as they were before the shortcut was pressed,
\* and no resize is under way.
C29_FailureLeavesAllAsBeforeTheAction ==
  [][PersistenceFailure => (AsStarted' /\ txs' = EmptyBag)]_vars

\* C29: the step in which loadProfileCmd, saveProfileCmd, saveProfileAsCmd
\* or saveSettingsCmd rejects leaves the station list, the UI flags and the
\* settings as they are and starts no resize; and when it is loadProfileCmd
\* of the open shortcut, or a command of the save or save-as shortcut, they
\* are as before the shortcut was pressed and no resize is under way.  A
\* rejected saveSettingsCmd of the open shortcut leaves the profile that
\* loadProfile has applied.
C29_PersistenceFailureChangesNothing ==
  [][/\ PersistenceFailure =>
          (UNCHANGED << ids, mainUi, settings >> /\ txs' = txs)
     /\ (\/ OpenProfileFailed
         \/ \E h \in BagToSet(saves) : ProfileSaveFailed(h)
         \/ \E h \in BagToSet(saves) : SaveSettingsFailed(h))
          => (AsStarted' /\ txs' = EmptyBag)]_vars

\* The open shortcut has applied a profile without stations, in hPa, and
\* awaits saveSettingsCmd, which can reject.
C29_Witness ==
  /\ BagIn("saveSettings", opens)
  /\ ids = <<>> /\ mainUi.units = "hPa"
  /\ ~AsStarted

\* C30: the step in which saveProfileCmd or saveProfileAsCmd resolves issues
\* one saveSettingsCmd call, with the settings as they are then; a
\* saveSettingsCmd call of a save handler is issued in no other step, so not
\* before the profile is saved and not a second time.
C30_SettingsSavedOnceAfterProfile ==
  [][(\A h \in BagToSet(saves) :
        ProfileSaved(h) =>
          (/\ SaveSettingsCalls(saves') = SaveSettingsCalls(saves) + 1
           /\ BagIn([pc |-> "saveSettings", arg |-> settings], saves')))
     /\
     ((SaveSettingsCalls(saves') > SaveSettingsCalls(saves)) =>
        (\E h \in BagToSet(saves) : ProfileSaved(h)))]_vars

\* A handler awaits saveSettingsCmd with the settings read at startup, which
\* differ from those the App was created with, over a loaded list.
C30_Witness ==
  /\ ids # <<>>
  /\ \E h \in BagToSet(saves) :
       h.pc = "saveSettings" /\ ~h.arg.loadMostRecentProfileOnOpen

(***************************************************************************)
(* App: the input can be shown again (C32).                                *)
(***************************************************************************)
\* C32: whenever the input is hidden the station list is not empty, so that
\* Ctrl/Cmd + D, which flips showInput only for a non-empty list, can show
\* the input again.
C32_HiddenInputHasStations ==
  ~mainUi.showInput => ids # <<>>

(***************************************************************************)
(* Station monitor: a hidden row keeps polling (C33).                      *)
(***************************************************************************)
\* The row of a valid station is not rendered.
HiddenRow == validId /\ ~Rendered

\* C33: while the row of a valid station is hidden no timer is cleared and
\* each tick issues its fetch; an ATIS fetch that returns a letter other
\* than "-" renders the row again in that step; and the step that hides the
\* row (a shortcut, or an ATIS fetch that returns "-") leaves the
\* observation, the timers, the METAR fetches in flight and the mount as
\* they are.
C33_HiddenRowKeepsPolling ==
  /\ []((HiddenRow /\ "metarTimer" \in intervals
           /\ NumMetarTasks < MaxMetarTasks) =>
          ENABLED (MetarTick /\ NumMetarTasks' = NumMetarTasks + 1))
  /\ []((HiddenRow /\ "letterTimer" \in intervals
           /\ NumAtisTasks < MaxAtisTasks /\ NumTx < MaxTx) =>
          ENABLED (AtisTick /\ NumAtisTasks' = NumAtisTasks + 1))
  /\ [][/\ HiddenRow =>
          /\ intervals \subseteq intervals'
          /\ \A a \in BagToSet(atisTasks) : \A res \in AtisResponses :
               ((AtisFetched(a, res) /\ res.letter # "-") => Rendered')
     /\ (validId /\ Rendered /\ ~Rendered') =>
          UNCHANGED << stObservation, stTimers, stPc, disposed, metarTasks >>]_vars

\* A valid station with an observation is hidden after its mount; both
\* timers are armed and an ATIS fetch issued by the timer is in flight.
C33_Witness ==
  /\ HiddenRow /\ stPc = "done"
  /\ currentTimestamp # <<>>
  /\ intervals = {"metarTimer", "letterTimer"}
  /\ NumAtisTasks > 0

(***************************************************************************)
(* Station monitor: the ATIS texts panel has texts (C34).                  *)
(***************************************************************************)
\* C34: whenever the ATIS texts panel is open there are ATIS texts.
C34_OpenAtisPanelHasTexts ==
  showAtisTexts => atisTexts # <<>>

(***************************************************************************)
(* App: the resize request (C31), scrolling after a failure (C35).         *)
(***************************************************************************)
\* C31: the request a transaction issues keeps the measured width and asks
\* for the height (content height + offset) x scale factor, the offset being
\* 0 without the titlebar and else 30 on macOS and 24 elsewhere, by the
\* showTitlebar of the moment, which is not older than the mutation.
C31_RequestGeometry ==
  [][\A t \in BagToSet(txs) :
       Measured(t) =>
         BagIn([pc |-> "setSize", owner |-> t.owner,
                request |->
                  << [width |-> win.width,
                      heightQuarters |->
                        IF mainUi.showTitlebar
                          THEN IF osType = "macos"
                                 THEN (win.offsetHeight + 30) * win.scaleQuarters
                                 ELSE (win.offsetHeight + 24) * win.scaleQuarters
                          ELSE win.offsetHeight * win.scaleQuarters] >>],
               txs')]_vars

\* On macOS at scale 1.25 a request for the 57 px content plus the 30 px
\* titlebar is in flight: 300 wide, 108.75 high.
C31_Witness ==
  /\ osType = "macos"
  /\ \E t \in BagToSet(txs) :
       /\ t.pc = "setSize"
       /\ t.request = << [width |-> 300, heightQuarters |-> 435] >>

\* C35: every invocation of applyFnAndResize that ends, by a resize that
\* succeeded or by a window call that failed, leaves scrolling restored.
C35_ScrollRestoredWhenInvocationEnds ==
  [][NumTx' < NumTx => mainUi'.showScroll]_vars
=============================================================================
